---- MODULE Spec2Model ----
(***************************************************************************)
(* Order checkout and M-Pesa payment reconciliation of the perfume shop    *)
(* backend (controllers createOrder, mpesaCallback, updateOrderStatus).    *)
(*                                                                         *)
(* Every handler is an async function: it runs to its next `await` and     *)
(* then other requests may run.  A handler is therefore a sequence of      *)
(* steps, one per database round trip, ordered by a program counter.       *)
(* Steps whose awaits touch nothing another request can see (work inside   *)
(* an open transaction, the notification send, the response) are merged    *)
(* into the step before them.                                              *)
(*                                                                         *)
(* createOrder runs in a MongoDB multi-document transaction: reads come    *)
(* from the snapshot taken at its first read overlaid with its own writes, *)
(* a write to a document that another open transaction has written, or     *)
(* that was committed after the snapshot, throws WriteConflict, and the    *)
(* writes become visible at commitTransaction.  mpesaCallback and          *)
(* updateOrderStatus use no transaction: every operation is applied to     *)
(* the committed data when it is issued, and a write to a document held    *)
(* by an open transaction waits for that transaction to end.               *)
(*                                                                         *)
(* The request body of createOrder is read lazily: each cart line, the     *)
(* payment method and the phone are drawn when the handler first uses      *)
(* them.  The handler reads each of them once, so this is the same set of  *)
(* runs as drawing the whole body on arrival.                              *)
(***************************************************************************)
EXTENDS Integers, Sequences, FiniteSets, TLC

\* ---------------------------------------------------------------- bounds
MaxCheckouts == 2
MaxCallbacks == 2
MaxAdmins == 1
MaxLines == 2
MaxQty == 2
InitStock == 2

Checkouts == 1..MaxCheckouts
Callbacks == 1..MaxCallbacks
Admins == 1..MaxAdmins

\* ------------------------------------------------------------- catalog
Products == {"P1", "P2"}
\* a product id that resolves to no product
MissingProduct == "P0"
ProductIds == Products \cup {MissingProduct}
\* item.quantity: the schema puts no lower bound on it, and the handler checks
\* it only against the stock
Quantities == -1..MaxQty
\* the quantities of a cart the storefront builds
ValidQuantities == 1..MaxQty

\* the price each product is created with, and the prices an update may set
Price(p) == IF p = "P1" THEN 100 ELSE 50
Prices == {100, 150}

\* ------------------------------------------------------- schema values
PaymentMethods == {"Mpesa", "Emola", "Cartao", "Entrega"}
PaymentStatuses == {"pending", "paid", "failed"}
OrderStatuses == {"processing", "shipped", "delivered", "cancelled"}

\* the success sentinel of the provider and one failure code
SuccessCode == "INS-0"
FailureCode == "INS-6"
ResultCodes == {SuccessCode, FailureCode}
ResultDesc(code) == IF code = SuccessCode THEN "Request processed successfully"
                    ELSE "Transaction Failed"

NoValue == "undefined"
NoOrder == 0

\* ---------------------------------------------------------------- phone
\* a phone is a sequence of one-character strings
Digits == {"0", "1", "2", "3", "4", "5", "6", "7", "8", "9"}
InvalidPhone == <<"E">>

\* phone.replace(/\D/g, '')
StripNonDigits(phone) == SelectSeq(phone, LAMBDA ch : ch \in Digits)

StartsWith(s, pre) == Len(s) >= Len(pre) /\ SubSeq(s, 1, Len(pre)) = pre

\* mutant: the leading 0 is kept
normalizeMpesaNumber_KeepsZero(phone) ==
    LET cleanPhone == StripNonDigits(phone)
    IN  IF Len(cleanPhone) = 9
           /\ (StartsWith(cleanPhone, <<"8", "4">>) \/ StartsWith(cleanPhone, <<"8", "5">>))
        THEN <<"2", "5", "8">> \o cleanPhone
        ELSE IF Len(cleanPhone) = 12 /\ StartsWith(cleanPhone, <<"2", "5", "8">>)
        THEN cleanPhone
        ELSE InvalidPhone

normalizeMpesaNumber(phone) ==
    LET stripped == StripNonDigits(phone)
        cleanPhone == IF StartsWith(stripped, <<"0">>) THEN Tail(stripped) ELSE stripped
    IN  IF Len(cleanPhone) = 9
           /\ (StartsWith(cleanPhone, <<"8", "4">>) \/ StartsWith(cleanPhone, <<"8", "5">>))
        THEN <<"2", "5", "8">> \o cleanPhone
        ELSE IF Len(cleanPhone) = 12 /\ StartsWith(cleanPhone, <<"2", "5", "8">>)
        THEN cleanPhone
        ELSE InvalidPhone

\* customerInfo.phone values a checkout may carry
Phones == { <<"0", "8", "4", " ", "1", "2", "3", " ", "4", "5", "6", "7">>,
            <<"1", "2", "3", "4", "5">> }

\* strings normalizeMpesaNumber may be called with: an optional lead, an
\* optional country code, a carrier prefix and a subscriber part, and the
\* short string "12345"
PhoneLeads == { <<>>, <<"0">>, <<"+">>, <<"0", "0">> }
PhoneCountries == { <<>>, <<"2", "5", "8">>, <<"2", "5", "9">> }
PhoneCarriers == { <<"8", "4">>, <<"8", "5">>, <<"8", "2">>, <<"4", "8">> }
PhoneSubscribers == { <<"1", "2", "3", "4", "5", "6", "7">>,
                      <<" ", "1", "2", "3", " ", "4", "5", "6", "7">>,
                      <<"1", "2", "3", "4", "5", "6">>,
                      <<"1", "2", "3", "4", "5", "6", "7", "8">>,
                      <<"1", "2", "3", "-", "4", "5", "a", "6", "7">> }
PhoneInputs ==
    { l \o c \o k \o n : l \in PhoneLeads, c \in PhoneCountries,
                         k \in PhoneCarriers, n \in PhoneSubscribers }
    \cup Phones

\* ------------------------------------------------------------- provider
\* Number.prototype.toString of an integer: a sign and its decimal digits
DigitOf(d) ==
    CASE d = 0 -> "0" [] d = 1 -> "1" [] d = 2 -> "2" [] d = 3 -> "3"
      [] d = 4 -> "4" [] d = 5 -> "5" [] d = 6 -> "6" [] d = 7 -> "7"
      [] d = 8 -> "8" [] d = 9 -> "9"

RECURSIVE NumberToString(_)
NumberToString(n) ==
    IF n < 0 THEN <<"-">> \o NumberToString(-n)
    ELSE IF n < 10 THEN <<DigitOf(n)>>
    ELSE Append(NumberToString(n \div 10), DigitOf(n % 10))

\* config.mpesa.serviceProviderCode
ServiceProviderCode == "MPESA_SERVICE_PROVIDER_CODE"

\* mutant: the amount is that of an empty cart
mpesaPayload_ZeroAmount(thirdPartyReference, mpesaPhoneNumber, totalAmount) ==
    [input_TransactionReference |-> thirdPartyReference,
     input_CustomerMSISDN |-> mpesaPhoneNumber,
     input_Amount |-> NumberToString(0),
     input_ThirdPartyReference |-> thirdPartyReference,
     input_ServiceProviderCode |-> ServiceProviderCode]

\* the body of the payment-initiation request
mpesaPayload(thirdPartyReference, mpesaPhoneNumber, totalAmount) ==
    [input_TransactionReference |-> thirdPartyReference,
     input_CustomerMSISDN |-> mpesaPhoneNumber,
     input_Amount |-> NumberToString(totalAmount),
     input_ThirdPartyReference |-> thirdPartyReference,
     input_ServiceProviderCode |-> ServiceProviderCode]

\* no request was sent
NoPayload == [input_TransactionReference |-> 0,
              input_CustomerMSISDN |-> <<>>,
              input_Amount |-> <<>>,
              input_ThirdPartyReference |-> 0,
              input_ServiceProviderCode |-> NoValue]

\* axios.post resolves on a 2xx answer, rejects with error.response on any
\* other answer and rejects without it when no answer arrives
ProviderOutcomes == {"ack", "errorResponse", "noResponse"}
ProviderAck == [output_ConversationID |-> "AG_1",
                output_ResponseCode |-> SuccessCode,
                output_ResponseDesc |-> ResultDesc(SuccessCode)]
NoAck == [output_ConversationID |-> NoValue,
          output_ResponseCode |-> NoValue,
          output_ResponseDesc |-> NoValue]

\* --------------------------------------------------------- notification
\* The handlers keep the socket startBaileys returned first: it is connecting,
\* then open, then closed, and a reconnect makes a socket they never see.
SockStates == {"connecting", "open", "close"}
\* a handler that was given no socket
NoSock == "null"

\* sock.sendMessage(...) resolves on an open connection and rejects otherwise
SendMessage(s) == IF s = "open" THEN "resolved" ELSE "rejected"

\* mutant: a rejected send leaves the function
sendWhatsAppMessage_Rethrows(s) ==
    IF s = NoSock THEN "notSent"
    ELSE IF SendMessage(s) = "rejected" THEN "threw"
    ELSE "sent"

\* sendWhatsAppMessage(sock, to, message): returns without sending when there
\* is no socket, and its catch swallows a rejected send
sendWhatsAppMessage(s) ==
    IF s = NoSock THEN "notSent"
    ELSE IF SendMessage(s) = "rejected" THEN "notSent"
    ELSE "sent"

\* ---------------------------------------------------------------- state
VARIABLES
    stock,     \* Product.stock of every product, committed
    price,     \* Product.price of every product, committed
    orders,    \* the committed Order documents, in insertion order
    clock,     \* the last value Date.now() returned
    co,        \* createOrder: the state of each request
    cb,        \* mpesaCallback: the state of each request
    ad,        \* updateOrderStatus: the state of each request
    sock,      \* the connection of the WhatsApp client the handlers were given
    np,        \* normalizeMpesaNumber: an argument, its result and the
               \* result of normalizing that result
    wa         \* server.js: waConnectionState, the startBaileys calls and the
               \* connection of the socket in the module-level variable

vars == <<stock, price, orders, clock, co, cb, ad, sock, np, wa>>

\* ------------------------------------------------------------ documents
\* new Order({...}) with the schema defaults
NewOrder(id, productDetails, totalAmount, paymentMethod, thirdPartyReference) ==
    [id |-> id,
     trackingId |-> id,
     products |-> productDetails,
     totalAmount |-> totalAmount,
     paymentMethod |-> paymentMethod,
     paymentStatus |-> "pending",
     orderStatus |-> "processing",
     thirdPartyReference |-> thirdPartyReference,
     conversationID |-> NoValue,
     responseCode |-> NoValue,
     responseDescription |-> NoValue]

EmptyOrder == NewOrder(NoOrder, <<>>, 0, NoValue, 0)

\* positions of the stored orders
OrderIdx == 1..Len(orders)

\* ------------------------------------------------------------ responses
NoResponse == [status |-> 0, orderId |-> NoOrder, trackingId |-> NoOrder,
               mpesaResponse |-> NoAck, error |-> NoValue]
Created(order, ack) == [status |-> 201, orderId |-> order.id,
                        trackingId |-> order.trackingId,
                        mpesaResponse |-> ack, error |-> NoValue]
Failed(status, error) == [status |-> status, orderId |-> NoOrder,
                          trackingId |-> NoOrder, mpesaResponse |-> NoAck,
                          error |-> error]

\* ===================================================================
\* createOrder
\* ===================================================================
ZeroView == [p \in Products |-> 0]

\* no cart line was read yet
NoItem == [product |-> NoValue, quantity |-> 0]

CoIdle == [pc |-> "idle",
           item |-> NoItem,           \* the cart line the loop read last
           productDetails |-> <<>>,   \* the validated cart lines so far
           totalAmount |-> 0,
           view |-> ZeroView,         \* the transaction's view of Product.stock
           wrote |-> {},              \* products the transaction has written
           stale |-> {},              \* products committed by others since the snapshot
           order |-> EmptyOrder,      \* the Order document saved in the transaction
           phone |-> <<>>,            \* customerInfo.phone, once it is read
           sent |-> NoPayload,        \* the body axios.post was called with
           ack |-> NoAck,             \* mpesaResponse.data
           notified |-> NoValue,      \* what sendWhatsAppMessage did
           res |-> NoResponse]

\* the session of request r has an open transaction
InTransaction(r) == co[r].pc \in {"lines", "commit"}

\* mutant: no write ever conflicts
WriteConflict_Never(r, p) == FALSE

\* product.save({ session }) meets a write of another open transaction, or a
\* write committed after this transaction's snapshot
WriteConflict(r, p) ==
    \/ p \in co[r].stale
    \/ \E t \in Checkouts \ {r} : InTransaction(t) /\ p \in co[t].wrote

\* mutant: the read goes to the committed data, not to the session
SessionStock_Committed(r, p) == stock[p]

\* Product.findById(id).session(session): the stock this transaction sees
SessionStock(r, p) == co[r].view[p]

\* Product.findById(id).session(session): the price this transaction sees.  It
\* is used only when the write of the same document did not conflict, that is
\* when the product was not written since the snapshot, so it is the
\* committed price
SessionPrice(r, p) == price[p]

\* mutant: the decrements of the request outlive the abort
AbortedStock_NoRollback(r) ==
    [p \in Products |-> IF p \in co[r].wrote THEN co[r].view[p] ELSE stock[p]]

\* session.abortTransaction(): the committed stock after the abort
AbortedStock(r) == stock

\* session.commitTransaction(): the committed stock after the commit
CommittedStock(r) ==
    [p \in Products |-> IF p \in co[r].wrote THEN co[r].view[p] ELSE stock[p]]

\* every other open transaction now has a snapshot older than products ps
MarkStale(c, r, ps) ==
    [t \in Checkouts |->
        IF t # r /\ c[t].pc \in {"lines", "commit"}
        THEN [c[t] EXCEPT !.stale = @ \cup ps]
        ELSE c[t]]

\* the catch block, entered with the request as c: abortTransaction, then the
\* 500 response.  productDetails stays as the loop left it
ThrowFrom(r, c, error) ==
    /\ stock' = AbortedStock(r)
    /\ co' = [co EXCEPT ![r] = [c EXCEPT !.pc = "done",
                                         !.view = ZeroView,
                                         !.wrote = {},
                                         !.stale = {},
                                         !.order = EmptyOrder,
                                         !.res = Failed(500, error)]]
    /\ UNCHANGED <<orders, cb, ad, price, sock, np, wa>>

Throw(r, error) == ThrowFrom(r, co[r], error)

\* the request arrives: startSession, startTransaction, the body check and
\* the first read, which fixes the snapshot
CoBegin(r) ==
    /\ co[r].pc = "idle"
    /\ \E complete \in BOOLEAN :
          IF ~complete
          THEN co' = [co EXCEPT ![r] = [@ EXCEPT !.pc = "done",
                                                 !.res = Failed(400, "IncompleteOrder")]]
          ELSE co' = [co EXCEPT ![r] = [@ EXCEPT !.pc = "lines", !.view = stock]]
    /\ UNCHANGED <<stock, orders, clock, cb, ad, price, sock, np, wa>>

\* mutant: the quantity is left out of the amount
LineAmount_Unit(unitPrice, quantity) == unitPrice

\* product.price * item.quantity
LineAmount(unitPrice, quantity) == unitPrice * quantity

\* mutant: a quantity equal to the stock is refused
InsufficientStock_AtBoundary(available, quantity) == available <= quantity

\* product.stock < item.quantity
InsufficientStock(available, quantity) == available < quantity

\* one turn of the loop over req.body.products, for a cart of at most `lines`
\* lines with quantities from `quantities`
CoLineOf(r, quantities, lines) ==
    /\ co[r].pc = "lines"
    /\ Len(co[r].productDetails) < lines
    /\ UNCHANGED clock
    /\ \E id \in ProductIds, quantity \in quantities :
          LET item == [product |-> id, quantity |-> quantity]
              read == [co[r] EXCEPT !.item = item]
          IN
          IF id \notin Products
          THEN ThrowFrom(r, read, "ProductNotFound")
          ELSE IF InsufficientStock(SessionStock(r, id), quantity)
          THEN ThrowFrom(r, read, "InsufficientStock")
          ELSE IF WriteConflict(r, id)
          THEN ThrowFrom(r, read, "WriteConflict")
          ELSE /\ co' = [co EXCEPT ![r] =
                    [read EXCEPT !.totalAmount = @ + LineAmount(SessionPrice(r, id), quantity),
                              !.productDetails = Append(@, [product |-> id,
                                                            quantity |-> quantity,
                                                            price |-> SessionPrice(r, id)]),
                              !.view = [@ EXCEPT ![id] = SessionStock(r, id) - quantity],
                              !.wrote = @ \cup {id}]]
               /\ UNCHANGED <<stock, orders, cb, ad, price, sock, np, wa>>

\* any cart the handler accepts
CoLine(r) == CoLineOf(r, Quantities, MaxLines)

\* a cart the storefront builds: every quantity is at least 1
CoLineValid(r) == CoLineOf(r, ValidQuantities, MaxLines)

\* a cart of one line of one unit
CoLineUnit(r) == CoLineOf(r, {1}, 1)

\* mutant: the rejection is swallowed and the checkout goes on to commit
PaymentFailed_Swallowed(r, c, error) ==
    /\ co' = [co EXCEPT ![r] =
          [c EXCEPT !.pc = "commit",
                    !.order = NewOrder(r, co[r].productDetails, co[r].totalAmount,
                                       "Mpesa", clock')]]
    /\ UNCHANGED <<stock, orders, cb, ad, price, sock, np, wa>>

\* axios.post rejected: the error leaves the try block
PaymentFailed(r, c, error) == ThrowFrom(r, c, error)

\* mutant: every simulated method is paid at once
SimulatedStatus_Paid(paymentMethod) == "paid"

\* the payment status a method other than Mpesa gets
SimulatedStatus(paymentMethod) == IF paymentMethod = "Entrega" THEN "pending" ELSE "paid"

\* after the loop: the reference, new Order, order.save and the payment branch
CoCreateOrder(r) ==
    /\ co[r].pc = "lines"
    /\ \E now \in {clock, clock + 1}, paymentMethod \in PaymentMethods :
       LET order == NewOrder(r, co[r].productDetails, co[r].totalAmount,
                             paymentMethod, now)
       IN  /\ now >= 1
           /\ clock' = now
           /\ IF paymentMethod = "Mpesa"
              THEN \E phone \in Phones, outcome \in ProviderOutcomes :
                      LET read == [co[r] EXCEPT !.phone = phone]
                          posted == [read EXCEPT !.sent =
                                       mpesaPayload(now, normalizeMpesaNumber(phone),
                                                    co[r].totalAmount)]
                      IN
                      IF normalizeMpesaNumber(phone) = InvalidPhone
                      THEN ThrowFrom(r, read, "InvalidPhoneNumber")
                      ELSE IF outcome = "errorResponse"
                      THEN PaymentFailed(r, posted, "ProviderError")
                      ELSE IF outcome = "noResponse"
                      THEN PaymentFailed(r, posted, "ProviderUnreachable")
                      ELSE /\ co' = [co EXCEPT ![r] =
                                [posted EXCEPT !.pc = "commit",
                                          !.ack = ProviderAck,
                                          !.order =
                                             [order EXCEPT
                                                !.conversationID = ProviderAck.output_ConversationID,
                                                !.responseCode = ProviderAck.output_ResponseCode,
                                                !.responseDescription = ProviderAck.output_ResponseDesc]]]
                           /\ UNCHANGED <<stock, orders, cb, ad, price, sock, np, wa>>
              ELSE /\ co' = [co EXCEPT ![r] =
                        [@ EXCEPT !.pc = "commit",
                                  !.order = [order EXCEPT
                                               !.paymentStatus = SimulatedStatus(paymentMethod)]]]
                   /\ UNCHANGED <<stock, orders, cb, ad, price, sock, np, wa>>

\* session.commitTransaction()
CoCommit(r) ==
    /\ co[r].pc = "commit"
    /\ stock' = CommittedStock(r)
    /\ orders' = Append(orders, co[r].order)
    /\ co' = [MarkStale(co, r, co[r].wrote) EXCEPT ![r] =
                 [@ EXCEPT !.pc = "respond", !.view = ZeroView,
                           !.wrote = {}, !.stale = {},
                           !.productDetails = <<>>]]
    /\ UNCHANGED <<clock, cb, ad, price, sock, np, wa>>

\* the 201 response.  For Mpesa the response expression reads mpesaResponse, a
\* const of the if block that is out of scope here: a ReferenceError, and the
\* catch block's abortTransaction throws in turn because the transaction is
\* already committed, so the handler rejects and no response is sent.
ResponseOf(r) ==
    IF co[r].order.paymentMethod = "Mpesa"
    THEN Failed(0, "ReferenceError")
    ELSE Created(co[r].order, NoAck)

\* the notification and the response.  An error out of the notification would
\* reach the same catch block
CoRespond(r) ==
    /\ co[r].pc = "respond"
    /\ LET notice == sendWhatsAppMessage(sock)
       IN co' = [co EXCEPT ![r] =
                   [CoIdle EXCEPT !.pc = "done",
                                  !.notified = notice,
                                  !.res = IF notice = "threw"
                                          THEN Failed(0, "NotificationError")
                                          ELSE ResponseOf(r)]]
    /\ UNCHANGED <<stock, orders, clock, cb, ad, price, sock, np, wa>>

createOrder(r) ==
    \/ CoBegin(r)
    \/ CoLine(r)
    \/ CoCreateOrder(r)
    \/ CoCommit(r)
    \/ CoRespond(r)

\* createOrder for a cart the storefront builds
createOrderValid(r) ==
    \/ CoBegin(r)
    \/ CoLineValid(r)
    \/ CoCreateOrder(r)
    \/ CoCommit(r)
    \/ CoRespond(r)

\* createOrder for a cart of one line of one unit
createOrderUnit(r) ==
    \/ CoBegin(r)
    \/ CoLineUnit(r)
    \/ CoCreateOrder(r)
    \/ CoCommit(r)
    \/ CoRespond(r)

\* ===================================================================
\* mongoose documents outside a transaction
\* ===================================================================
\* doc.save(): mongoose sends a $set of the paths whose value differs from the
\* loaded one; the other paths of the stored document stay as they are
SaveDoc(stored, loaded, current) ==
    [f \in DOMAIN stored |-> IF current[f] # loaded[f] THEN current[f] ELSE stored[f]]

\* mutant: the filter is ignored and the first stored order is returned
FindByReference_First(ref) == IF orders # <<>> THEN 1 ELSE 0

\* Order.findOne({ 'mpesaDetails.thirdPartyReference': ref }): the position of
\* the first stored order with that reference, 0 when there is none
FindByReference(ref) ==
    IF \E i \in OrderIdx : orders[i].thirdPartyReference = ref
    THEN CHOOSE i \in OrderIdx :
            /\ orders[i].thirdPartyReference = ref
            /\ \A j \in OrderIdx : orders[j].thirdPartyReference = ref => i <= j
    ELSE 0

\* Order.findById(id): the position of the order, 0 when there is none
FindById(id) ==
    IF \E i \in OrderIdx : orders[i].id = id
    THEN CHOOSE i \in OrderIdx : orders[i].id = id
    ELSE 0

\* ===================================================================
\* mpesaCallback
\* ===================================================================
\* the callback body's input_ThirdPartyReference: 0 stands for a body without it
NoReference == 0
References == NoReference..MaxCheckouts

CbIdle == [pc |-> "idle",
           ref |-> NoReference,  \* input_ThirdPartyReference, while in progress
           code |-> NoValue,     \* input_ResultCode
           at |-> 0,             \* where the loaded order is stored
           doc |-> EmptyOrder,   \* the order as findOne returned it
           item |-> 0,           \* line items restored so far
           notified |-> NoValue, \* what sendWhatsAppMessage did
           status |-> 0]         \* the response status, 0 before the response

\* the assignments of the handler to the loaded document
CallbackAssign(doc, code) ==
    IF code = SuccessCode
    THEN [doc EXCEPT !.responseCode = code,
                     !.responseDescription = ResultDesc(code),
                     !.paymentStatus = "paid",
                     !.orderStatus = "processing"]
    ELSE [doc EXCEPT !.responseCode = code,
                     !.responseDescription = ResultDesc(code),
                     !.paymentStatus = "failed",
                     !.orderStatus = "cancelled"]

\* mutant: the stock is given back whatever the result code
RestoresStock_Always(code) == TRUE

\* the else branch of resultCode === 'INS-0': the stock is given back
RestoresStock(code) == code # SuccessCode

\* mutant: one unit is given back per line item
IncStock_One(s, item) == [s EXCEPT ![item.product] = @ + 1]

\* Product.updateOne({ _id }, { $inc: { stock: quantity } })
IncStock(s, item) == [s EXCEPT ![item.product] = @ + item.quantity]

\* the callback arrives: the reference check and Order.findOne
CbBegin(k) ==
    /\ cb[k].pc = "idle"
    /\ \E ref \in References, code \in ResultCodes :
          IF ref = NoReference
          THEN cb' = [cb EXCEPT ![k] = [@ EXCEPT !.pc = "done", !.status = 400]]
          ELSE IF FindByReference(ref) = 0
          THEN cb' = [cb EXCEPT ![k] = [@ EXCEPT !.pc = "done", !.status = 404]]
          ELSE LET at == FindByReference(ref)
               IN cb' = [cb EXCEPT ![k] =
                     [@ EXCEPT !.ref = ref,
                               !.code = code,
                               !.at = at,
                               !.doc = orders[at],
                               !.pc = IF RestoresStock(code) /\ orders[at].products # <<>>
                                      THEN "restore" ELSE "save"]]
    /\ UNCHANGED <<stock, orders, clock, co, ad, price, sock, np, wa>>

\* one turn of the loop over order.products.  The update is not part of any
\* transaction: it waits while an open transaction holds a write on the product
CbRestore(k) ==
    /\ cb[k].pc = "restore"
    /\ LET item == cb[k].doc.products[cb[k].item + 1]
       IN  /\ \A t \in Checkouts : ~(InTransaction(t) /\ item.product \in co[t].wrote)
           /\ stock' = IncStock(stock, item)
           /\ co' = MarkStale(co, 0, {item.product})
    /\ cb' = [cb EXCEPT ![k] =
                 [@ EXCEPT !.item = @ + 1,
                           !.pc = IF cb[k].item + 1 = Len(cb[k].doc.products)
                                  THEN "save" ELSE "restore"]]
    /\ UNCHANGED <<orders, clock, ad, price, sock, np, wa>>

\* order.save(), the notification and the 200 response; an error out of the
\* notification would reach the catch block and its 500
CbSave(k) ==
    /\ cb[k].pc = "save"
    /\ orders' = [orders EXCEPT ![cb[k].at] =
                     SaveDoc(@, cb[k].doc, CallbackAssign(cb[k].doc, cb[k].code))]
    /\ LET notice == sendWhatsAppMessage(sock)
       IN cb' = [cb EXCEPT ![k] =
                   [@ EXCEPT !.pc = "done",
                             !.notified = notice,
                             !.status = IF notice = "threw" THEN 500 ELSE 200,
                             !.ref = NoReference,
                             !.doc = EmptyOrder, !.item = 0]]
    /\ UNCHANGED <<stock, clock, co, ad, price, sock, np, wa>>

\* order.save() rejects (the database is unreachable, or the write fails):
\* the catch block logs and answers 500.  Nothing undoes the updateOne calls
\* of the loop before it
CbSaveFails(k) ==
    /\ cb[k].pc = "save"
    /\ cb' = [cb EXCEPT ![k] =
                 [@ EXCEPT !.pc = "done",
                           !.status = 500,
                           !.ref = NoReference,
                           !.doc = EmptyOrder, !.item = 0]]
    /\ UNCHANGED <<stock, orders, clock, co, ad, price, sock, np, wa>>

mpesaCallback(k) ==
    \/ CbBegin(k)
    \/ CbRestore(k)
    \/ CbSave(k)

\* ===================================================================
\* updateOrderStatus
\* ===================================================================
AdIdle == [pc |-> "idle",
           orderStatus |-> NoValue,   \* req.body.orderStatus
           at |-> 0,
           doc |-> EmptyOrder,
           notified |-> NoValue,      \* what sendWhatsAppMessage did
           status |-> 0]

\* mutant: a cancellation also marks the payment failed
StatusAssign_CancelsPayment(doc, orderStatus) ==
    IF orderStatus = "cancelled"
    THEN [doc EXCEPT !.orderStatus = orderStatus, !.paymentStatus = "failed"]
    ELSE [doc EXCEPT !.orderStatus = orderStatus]

\* order.orderStatus = orderStatus
StatusAssign(doc, orderStatus) == [doc EXCEPT !.orderStatus = orderStatus]

\* the request arrives: Order.findById(req.params.id)
AdBegin(a) ==
    /\ ad[a].pc = "idle"
    /\ \E id \in Checkouts, orderStatus \in OrderStatuses :
          IF FindById(id) = 0
          THEN ad' = [ad EXCEPT ![a] = [@ EXCEPT !.pc = "done", !.status = 404]]
          ELSE ad' = [ad EXCEPT ![a] =
                  [@ EXCEPT !.pc = "save",
                            !.orderStatus = orderStatus,
                            !.at = FindById(id),
                            !.doc = orders[FindById(id)]]]
    /\ UNCHANGED <<stock, orders, clock, co, cb, price, sock, np, wa>>

\* order.save(), the notification and the 200 response; an error out of the
\* notification would reach the catch block and its 500
AdSave(a) ==
    /\ ad[a].pc = "save"
    /\ orders' = [orders EXCEPT ![ad[a].at] =
                     SaveDoc(@, ad[a].doc, StatusAssign(ad[a].doc, ad[a].orderStatus))]
    /\ LET notice == sendWhatsAppMessage(sock)
       IN ad' = [ad EXCEPT ![a] =
                   [AdIdle EXCEPT !.pc = "done",
                                  !.notified = notice,
                                  !.status = IF notice = "threw" THEN 500 ELSE 200]]
    /\ UNCHANGED <<stock, clock, co, cb, price, sock, np, wa>>

updateOrderStatus(a) ==
    \/ AdBegin(a)
    \/ AdSave(a)

\* ===================================================================
\* updateProduct
\* ===================================================================
\* Product.findByIdAndUpdate(req.params.id, req.body) with a body that carries
\* a price.  The handler has one await and keeps nothing: an unknown id is
\* answered 404 and changes nothing.  The update is not part of any
\* transaction: it waits while an open transaction holds a write on the
\* product, and it makes the snapshot of every open transaction stale
updateProduct ==
    \E id \in ProductIds, newPrice \in Prices :
       IF id \notin Products
       THEN UNCHANGED vars
       ELSE /\ \A t \in Checkouts : ~(InTransaction(t) /\ id \in co[t].wrote)
            /\ price' = [price EXCEPT ![id] = newPrice]
            /\ co' = MarkStale(co, 0, {id})
            /\ UNCHANGED <<stock, orders, clock, cb, ad, sock, np, wa>>

\* ===================================================================
\* the WhatsApp connection
\* ===================================================================
\* calls of startBaileys, the first one included
MaxSockets == 2

\* no QR code is stored
NoQr == "null"
\* the QR code a connecting socket offers
QrCodes == {"2@qr"}

\* lastDisconnect.error.output.statusCode of a close
DisconnectReasons == {"loggedOut", "connectionLost"}

\* the updates a socket emits: QR codes and then open or close while it is
\* connecting, close once it is open, nothing once it is closed
ConnectionUpdates(connection) ==
    IF connection = "connecting"
    THEN [connection : {NoValue}, qr : QrCodes, statusCode : {NoValue}]
         \cup [connection : {"open"}, qr : {NoValue} \cup QrCodes, statusCode : {NoValue}]
         \cup [connection : {"close"}, qr : {NoValue} \cup QrCodes,
               statusCode : DisconnectReasons]
    ELSE IF connection = "open"
    THEN [connection : {"close"}, qr : {NoValue}, statusCode : DisconnectReasons]
    ELSE {}

\* statusCode !== DisconnectReason.loggedOut
shouldReconnect(update) == update.statusCode # "loggedOut"

\* mutant: an open connection keeps the stored QR code
ConnectionStateAfter_KeepsQr(connectionState, update) ==
    LET scanned == IF update.qr # NoValue
                   THEN [status |-> "qr", qr |-> update.qr]
                   ELSE connectionState
    IN  IF update.connection = "close"
        THEN [scanned EXCEPT !.status = IF shouldReconnect(update)
                                        THEN "disconnected" ELSE "logged_out"]
        ELSE IF update.connection = "open"
        THEN [scanned EXCEPT !.status = "connected"]
        ELSE scanned

\* what the handler leaves in connectionState
ConnectionStateAfter(connectionState, update) ==
    LET scanned == IF update.qr # NoValue
                   THEN [status |-> "qr", qr |-> update.qr]
                   ELSE connectionState
    IN  IF update.connection = "close"
        THEN [scanned EXCEPT !.status = IF shouldReconnect(update)
                                        THEN "disconnected" ELSE "logged_out"]
        ELSE IF update.connection = "open"
        THEN [scanned EXCEPT !.status = "connected", !.qr = NoQr]
        ELSE scanned

\* sock.ev.on('connection.update') of the socket made last, the only one
\* that is not closed.  A close for another reason than a logout calls
\* startBaileys, which makes its socket after its first await.  The handlers
\* were given the first socket: sock follows the updates of that one only
connectionUpdate ==
    /\ \E update \in ConnectionUpdates(wa.latest) :
          LET state == ConnectionStateAfter([status |-> wa.status, qr |-> wa.qr], update)
              connection == IF update.connection = NoValue
                            THEN wa.latest ELSE update.connection
              reconnects == update.connection = "close" /\ shouldReconnect(update)
          IN  /\ reconnects => wa.calls < MaxSockets
              /\ wa' = [status |-> state.status,
                        qr |-> state.qr,
                        lastDisconnect |-> IF update.connection = "close"
                                           THEN update.statusCode
                                           ELSE wa.lastDisconnect,
                        calls |-> IF reconnects THEN wa.calls + 1 ELSE wa.calls,
                        starting |-> reconnects,
                        latest |-> connection]
              /\ sock' = IF wa.calls = 1 THEN connection ELSE sock
    /\ UNCHANGED <<stock, price, orders, clock, co, cb, ad, np>>

\* startBaileys after useMultiFileAuthState: sock = makeWASocket(...)
startBaileys ==
    /\ wa.starting
    /\ wa' = [wa EXCEPT !.starting = FALSE, !.latest = "connecting"]
    /\ UNCHANGED <<stock, price, orders, clock, co, cb, ad, sock, np>>

\* startServer: waConnectionState and the first startBaileys call, awaited
WaInit == [status |-> "initializing",
           qr |-> NoQr,
           lastDisconnect |-> NoValue,
           calls |-> 1,
           starting |-> FALSE,
           latest |-> "connecting"]

\* ===================================================================
\* the system
\* ===================================================================
\* ----------------------------------------------- normalizeMpesaNumber
NpIdle == [pc |-> "idle", phone |-> <<>>, result |-> <<>>, again |-> <<>>]

\* normalizeMpesaNumber(phone)
NpNormalize ==
    /\ np.pc = "called"
    /\ np' = [np EXCEPT !.pc = "returned",
                        !.result = normalizeMpesaNumber(np.phone)]
    /\ UNCHANGED <<stock, price, orders, clock, co, cb, ad, sock, wa>>

\* normalizeMpesaNumber(normalizeMpesaNumber(phone))
NpNormalizeAgain ==
    /\ np.pc = "returned"
    /\ np' = [np EXCEPT !.pc = "renormalized",
                        !.again = normalizeMpesaNumber(np.result)]
    /\ UNCHANGED <<stock, price, orders, clock, co, cb, ad, sock, wa>>

Init ==
    /\ stock = [p \in Products |-> InitStock]
    /\ price = [p \in Products |-> Price(p)]
    /\ sock = "connecting"
    /\ orders = <<>>
    /\ clock = 0
    /\ co = [r \in Checkouts |-> CoIdle]
    /\ cb = [k \in Callbacks |-> CbIdle]
    /\ ad = [a \in Admins |-> AdIdle]
    /\ np = NpIdle
    /\ wa = WaInit

Next ==
    \/ \E r \in Checkouts : createOrder(r)
    \/ \E k \in Callbacks : mpesaCallback(k)
    \/ \E k \in Callbacks : CbSaveFails(k)
    \/ \E a \in Admins : updateOrderStatus(a)
    \/ updateProduct
    \/ connectionUpdate
    \/ startBaileys

Spec == Init /\ [][Next]_vars

\* -------------------------------------------------------------------
\* Scenarios: the same actions from the same initial state with a fixed
\* cast of requests, each small enough to be explored in full.
\* -------------------------------------------------------------------
\* two concurrent checkouts of carts the storefront builds
NextCheckout ==
    \/ createOrderValid(1)
    \/ createOrderValid(2)

SpecCheckout == Init /\ [][NextCheckout]_vars

\* one checkout, two callbacks and a status update racing over its order
NextPayment ==
    \/ createOrderValid(1)
    \/ mpesaCallback(1)
    \/ mpesaCallback(2)
    \/ updateOrderStatus(1)

SpecPayment == Init /\ [][NextPayment]_vars

\* two concurrent checkouts and a callback that restores stock among them
NextStock ==
    \/ createOrderValid(1)
    \/ createOrderValid(2)
    \/ mpesaCallback(1)

SpecStock == Init /\ [][NextStock]_vars

\* one checkout, its callback and its status update, while the catalog prices
\* change
NextCatalog ==
    \/ createOrderValid(1)
    \/ mpesaCallback(1)
    \/ updateOrderStatus(1)
    \/ updateProduct

SpecCatalog == Init /\ [][NextCatalog]_vars

\* two checkouts of one unit each and two callbacks
NextIsolation ==
    \/ createOrderUnit(1)
    \/ createOrderUnit(2)
    \/ mpesaCallback(1)
    \/ mpesaCallback(2)

SpecIsolation == Init /\ [][NextIsolation]_vars

\* one checkout of any cart the handler accepts, and a callback
NextCart ==
    \/ createOrder(1)
    \/ mpesaCallback(1)

SpecCart == Init /\ [][NextCart]_vars

\* one checkout, a callback and a status update while the WhatsApp connection
\* opens and closes
NextNotify ==
    \/ createOrderValid(1)
    \/ mpesaCallback(1)
    \/ updateOrderStatus(1)
    \/ connectionUpdate
    \/ startBaileys

SpecNotify == Init /\ [][NextNotify]_vars

\* two checkouts of one unit each, a callback and a status update
NextAdmin ==
    \/ createOrderUnit(1)
    \/ createOrderUnit(2)
    \/ mpesaCallback(1)
    \/ updateOrderStatus(1)

SpecAdmin == Init /\ [][NextAdmin]_vars

\* normalizeMpesaNumber alone, called with every string of PhoneInputs
InitPhone ==
    /\ stock = [p \in Products |-> InitStock]
    /\ price = [p \in Products |-> Price(p)]
    /\ sock = "connecting"
    /\ orders = <<>>
    /\ clock = 0
    /\ co = [r \in Checkouts |-> CoIdle]
    /\ cb = [k \in Callbacks |-> CbIdle]
    /\ ad = [a \in Admins |-> AdIdle]
    /\ wa = WaInit
    /\ np \in {[NpIdle EXCEPT !.pc = "called", !.phone = phone] :
                 phone \in PhoneInputs}

NextPhone ==
    \/ NpNormalize
    \/ NpNormalizeAgain

SpecPhone == InitPhone /\ [][NextPhone]_vars

\* a checkout of one unit and a callback the provider delivers and, after a
\* server error, delivers again; the order's save may fail
NextRetry ==
    \/ createOrderUnit(1)
    \/ mpesaCallback(1)
    \/ CbSaveFails(1)
    \/ mpesaCallback(2)
    \/ CbSaveFails(2)

SpecRetry == Init /\ [][NextRetry]_vars

\* ===================================================================
\* Properties
\* ===================================================================
\* request r takes the step that ends it
Ends(r) == co[r].pc # "done" /\ co'[r].pc = "done"

\* no stored order was created by request r
NoOrderOf(r) == \A i \in OrderIdx : orders[i].id # r

\* the sum of the quantities of product p over line items
RECURSIVE SumQty(_, _)
SumQty(items, p) ==
    IF items = <<>> THEN 0
    ELSE (IF Head(items).product = p THEN Head(items).quantity ELSE 0)
         + SumQty(Tail(items), p)

\* the committed stock of every product is the initial stock less the line
\* items of the stored orders
RECURSIVE SumOrders(_, _)
SumOrders(os, p) ==
    IF os = <<>> THEN 0 ELSE SumQty(Head(os).products, p) + SumOrders(Tail(os), p)

StockAccounted == \A p \in Products : stock[p] = InitStock - SumOrders(orders, p)

ValidationErrors == {"ProductNotFound", "InsufficientStock", "InvalidPhoneNumber"}
ProviderErrors == {"ProviderError", "ProviderUnreachable"}

\* C1: a checkout that fails on a missing product, on insufficient stock
\* (also after earlier lines of the cart were validated and decremented) or
\* on a phone that cannot be normalized answers with an error and leaves the
\* committed stock and the order store as they were: no order of the request
\* exists and every unit missing from the stock belongs to a stored order.
C1_FailedCheckoutPersistsNothing ==
    [][\A r \in Checkouts :
         (Ends(r) /\ co'[r].res.error \in ValidationErrors)
         => /\ co'[r].res.status = 500
            /\ stock' = stock
            /\ orders' = orders
            /\ NoOrderOf(r)'
            /\ StockAccounted']_vars

\* C1 witness: a checkout failed on insufficient stock at its second line,
\* after its first line had been validated and decremented in the transaction
C1_Witness ==
    \E r \in Checkouts :
       /\ co[r].pc = "done"
       /\ co[r].res.error = "InsufficientStock"
       /\ Len(co[r].productDetails) = 1
       /\ NoOrderOf(r)
       /\ stock[co[r].productDetails[1].product] = InitStock

\* C2: when the payment initiation of an Mpesa checkout fails, with or
\* without an answer of the provider, the caller gets an error response, the
\* committed stock and the order store stay as they were and the order of the
\* request is never stored: every stored Mpesa order carries the provider's
\* acknowledgment.
C2_ProviderFailureAborts ==
    [][/\ \A r \in Checkouts :
            (Ends(r) /\ co'[r].res.error \in ProviderErrors)
            => /\ co'[r].res.status = 500
               /\ stock' = stock
               /\ orders' = orders
               /\ NoOrderOf(r)'
       /\ \A i \in 1..Len(orders') :
            orders'[i].paymentMethod = "Mpesa"
            => orders'[i].conversationID = ProviderAck.output_ConversationID
       /\ StockAccounted']_vars

\* C2 witness: the provider answered an Mpesa checkout with an error after the
\* cart had reserved stock; nothing of the request is stored
C2_Witness ==
    \E r \in Checkouts :
       /\ co[r].pc = "done"
       /\ co[r].res.error = "ProviderError"
       /\ co[r].res.status = 500
       /\ Len(co[r].productDetails) = 2
       /\ orders = <<>>
       /\ \A p \in Products : stock[p] = InitStock

\* request r takes its commit step
Commits(r) == co[r].pc = "commit" /\ co'[r].pc = "respond"

\* C9: the commit of a checkout lowers the stock of every product by the sum
\* of the quantities the cart asked of it, over all lines of the cart, and
\* leaves the stock of the products that are not in the cart as it was.
C9_CommitDecrementsByCart ==
    [][\A r \in Checkouts :
         Commits(r)
         => \A p \in Products :
               stock'[p] = stock[p] - SumQty(co[r].order.products, p)]_vars

\* C9 witness: a checkout whose cart lists the same product on two lines has
\* answered 201 and the product's stock is lower by both quantities
C9_Witness ==
    \E r \in Checkouts : \E i \in OrderIdx :
       /\ co[r].pc = "done"
       /\ co[r].res.status = 201
       /\ orders[i].id = r
       /\ Len(orders) = 1
       /\ Len(orders[i].products) = 2
       /\ orders[i].products[1].product = "P1"
       /\ orders[i].products[2].product = "P1"
       /\ stock["P1"] = InitStock - 2
       /\ stock["P2"] = InitStock

\* C10: every finished checkout whose order is stored has answered 201 with
\* the order id, the trackingId and, for an Mpesa order, the provider's
\* acknowledgment.
C10_CommittedCheckoutAnswersCreated ==
    \A r \in Checkouts : \A i \in OrderIdx :
       (co[r].pc = "done" /\ orders[i].id = r)
       => /\ co[r].res.status = 201
          /\ co[r].res.orderId = orders[i].id
          /\ co[r].res.trackingId = orders[i].trackingId
          /\ (orders[i].paymentMethod = "Mpesa"
              => co[r].res.mpesaResponse = ProviderAck)

\* no callback is between its findOne and its save
CallbacksQuiet == \A k \in Callbacks : cb[k].pc \in {"idle", "done"}

\* the line items of the stored orders whose payment has not failed
RECURSIVE SumLiveOrders(_, _)
SumLiveOrders(os, p) ==
    IF os = <<>> THEN 0
    ELSE (IF Head(os).paymentStatus # "failed" THEN SumQty(Head(os).products, p) ELSE 0)
         + SumLiveOrders(Tail(os), p)

\* C3: whenever no callback is in progress, for each product the initial
\* stock less the current stock is the sum of the line-item quantities of
\* the stored orders that no payment failure has cancelled (the decrements of
\* a cancelled order are given back exactly once).
C3_StockMatchesLiveOrders ==
    CallbacksQuiet
    => \A p \in Products : InitStock - stock[p] = SumLiveOrders(orders, p)

\* C4: when the same callback (same order, same result code) has been
\* processed twice, the order and the stock are as after processing it once:
\* the statuses are those of the result code, and the stock is the initial
\* stock for a failure, the initial stock less the order's items for a success.
C4_TwiceAsOnce ==
    (/\ cb[1].pc = "done" /\ cb[1].status = 200
     /\ cb[2].pc = "done" /\ cb[2].status = 200
     /\ cb[1].at = cb[2].at
     /\ cb[1].code = cb[2].code
     /\ Len(orders) = 1
     /\ \A a \in Admins : ad[a].pc = "idle")
    => LET order == orders[cb[1].at]
           once == CallbackAssign(order, cb[1].code)
       IN  /\ order.paymentStatus = once.paymentStatus
           /\ order.orderStatus = once.orderStatus
           /\ \A p \in Products :
                 stock[p] = IF cb[1].code = SuccessCode
                            THEN InitStock - SumQty(order.products, p)
                            ELSE InitStock

\* callback k takes a step
CbActs(k) == cb'[k] # cb[k]

\* C5: a callback that found an order whose paymentStatus is not pending
\* changes neither the paymentStatus nor the orderStatus of the order nor any
\* stock, and answers 200.
C5_SettledOrderIgnoresCallback ==
    [][\A k \in Callbacks :
         (CbActs(k) /\ cb[k].pc \in {"restore", "save"}
          /\ cb[k].doc.paymentStatus # "pending")
         => /\ stock' = stock
            /\ orders'[cb[k].at].paymentStatus = orders[cb[k].at].paymentStatus
            /\ orders'[cb[k].at].orderStatus = orders[cb[k].at].orderStatus
            /\ (cb'[k].pc = "done" => cb'[k].status = 200)]_vars

\* callback k has read an Mpesa order whose payment was pending
HoldsPendingMpesa(k) ==
    /\ cb[k].doc.paymentMethod = "Mpesa"
    /\ cb[k].doc.paymentStatus = "pending"

\* callback k takes its save step
CbSaves(k) == cb[k].pc = "save" /\ cb'[k].pc = "done"

\* after the save of callback k the stored order has value v at path f, unless
\* another request wrote that path after the callback read the order
Stores(k, f, v) ==
    \/ orders'[cb[k].at][f] = v
    \/ orders[cb[k].at][f] # cb[k].doc[f]

\* C6: a callback with a failure code for a pending Mpesa order raises the
\* stock of each line item's product by that line's quantity, each line once
\* and in order, and then stores paymentStatus failed, orderStatus cancelled
\* and the result code; when it is the only callback of the only order, the
\* stock is back at its initial value.
C6_FailureCallbackCancelsAndRestores ==
    [][\A k \in Callbacks :
         (HoldsPendingMpesa(k) /\ cb[k].code # SuccessCode /\ cb[k].code # NoValue)
         => /\ (cb[k].pc = "restore" /\ CbActs(k))
               => LET item == cb[k].doc.products[cb[k].item + 1]
                  IN  /\ cb'[k].item = cb[k].item + 1
                      /\ orders' = orders
                      /\ \A p \in Products :
                            stock'[p] = stock[p] + (IF p = item.product
                                                    THEN item.quantity ELSE 0)
            /\ CbSaves(k)
               => /\ cb[k].item = Len(cb[k].doc.products)
                  /\ stock' = stock
                  /\ orders'[cb[k].at].paymentStatus = "failed"
                  /\ Stores(k, "orderStatus", "cancelled")
                  /\ Stores(k, "responseCode", cb[k].code)
                  /\ Stores(k, "responseDescription", ResultDesc(cb[k].code))
                  /\ cb'[k].status = 200
                  /\ (Len(orders) = 1 /\ \A j \in Callbacks \ {k} : cb[j].pc = "idle")
                     => \A p \in Products : stock[p] = InitStock]_vars

\* C6 witness: the failure callback of a pending Mpesa order of two units of
\* P1 is done: the order is failed and cancelled and the stock is back
C6_Witness ==
    /\ Len(orders) = 1
    /\ orders[1].paymentMethod = "Mpesa"
    /\ orders[1].products = <<[product |-> "P1", quantity |-> 2, price |-> Price("P1")]>>
    /\ orders[1].paymentStatus = "failed"
    /\ orders[1].orderStatus = "cancelled"
    /\ orders[1].responseCode = FailureCode
    /\ cb[1].pc = "done" /\ cb[1].status = 200 /\ cb[1].code = FailureCode
    /\ cb[2].pc = "idle"
    /\ stock["P1"] = InitStock

\* C7: a callback with the success code for a pending Mpesa order stores
\* paymentStatus paid with the result code and description, writes no
\* orderStatus over the processing it read, and touches no stock: it runs
\* no restore step and its save leaves every stock as it was.
C7_SuccessCallbackPays ==
    [][\A k \in Callbacks :
         (HoldsPendingMpesa(k) /\ cb[k].code = SuccessCode /\ CbActs(k))
         => /\ CbSaves(k)
            /\ cb[k].item = 0
            /\ stock' = stock
            /\ orders'[cb[k].at].paymentStatus = "paid"
            /\ Stores(k, "responseCode", SuccessCode)
            /\ Stores(k, "responseDescription", ResultDesc(SuccessCode))
            /\ cb[k].doc.orderStatus = "processing"
               => orders'[cb[k].at].orderStatus = orders[cb[k].at].orderStatus
            /\ cb'[k].status = 200]_vars

\* C7 witness: the success callback of a pending Mpesa order is done: the order
\* is paid and still processing, and its units are still out of the stock
C7_Witness ==
    /\ Len(orders) = 1
    /\ orders[1].paymentMethod = "Mpesa"
    /\ orders[1].products = <<[product |-> "P1", quantity |-> 2, price |-> Price("P1")]>>
    /\ orders[1].paymentStatus = "paid"
    /\ orders[1].orderStatus = "processing"
    /\ orders[1].responseCode = SuccessCode
    /\ cb[1].pc = "done" /\ cb[1].status = 200 /\ cb[1].code = SuccessCode
    /\ cb[2].pc = "idle"
    /\ \A a \in Admins : ad[a].pc = "idle"
    /\ stock["P1"] = InitStock - 2

MobileMoney == {"Mpesa", "Emola"}

\* request r sends its payment-initiation request to the provider in this
\* step: the provider acknowledges it, or the request fails and the checkout
\* ends with the provider's error
PaymentInitiated(r) ==
    /\ co[r].pc = "lines"
    /\ \/ co'[r].ack = ProviderAck
       \/ co'[r].pc = "done" /\ co'[r].res.error \in ProviderErrors

\* C11: an order with a mobile-money method (Mpesa or Emola) is committed
\* pending and with the provider's acknowledgment of its payment initiation,
\* and the payment status of a stored mobile-money order leaves pending only
\* in the save step of a callback that loaded that order.
C11_MobileMoneyPendingUntilCallback ==
    [][/\ \A r \in Checkouts :
            (Commits(r) /\ co[r].order.paymentMethod \in MobileMoney)
            => /\ co[r].order.paymentStatus = "pending"
               /\ co[r].ack = ProviderAck
       /\ \A i \in OrderIdx :
            (/\ orders[i].paymentMethod \in MobileMoney
             /\ orders[i].paymentStatus = "pending"
             /\ orders'[i].paymentStatus # "pending")
            => \E k \in Callbacks : CbSaves(k) /\ cb[k].at = i]_vars

\* C12: every order is committed with orderStatus processing; an Entrega order
\* is committed pending and a Cartao order paid, and the step that creates
\* either sends no payment-initiation request, so the order carries no
\* acknowledgment of the provider.
C12_SimulatedMethods ==
    [][\A r \in Checkouts :
         /\ (co[r].pc = "lines" /\ co'[r].pc # "lines"
             /\ co'[r].order.paymentMethod \in {"Entrega", "Cartao"})
            => ~PaymentInitiated(r)
         /\ Commits(r)
            => LET order == orders'[Len(orders')]
               IN  /\ order.id = r
                   /\ order.orderStatus = "processing"
                   /\ order.paymentMethod = "Entrega"
                      => /\ order.paymentStatus = "pending"
                         /\ order.conversationID = NoValue
                   /\ order.paymentMethod = "Cartao"
                      => /\ order.paymentStatus = "paid"
                         /\ order.conversationID = NoValue]_vars

\* C12 witness: an Entrega checkout and a Cartao checkout of one line each have
\* answered 201: the first order is pending, the second paid, both processing
C12_Witness ==
    /\ Len(orders) = 2
    /\ orders[1].paymentMethod = "Entrega" /\ orders[1].paymentStatus = "pending"
    /\ orders[2].paymentMethod = "Cartao" /\ orders[2].paymentStatus = "paid"
    /\ \A i \in OrderIdx : /\ orders[i].orderStatus = "processing"
                           /\ orders[i].conversationID = NoValue
                           /\ Len(orders[i].products) = 1
    /\ \A r \in Checkouts : co[r].pc = "done" /\ co[r].res.status = 201

\* the sum over line items of the unit price at purchase times the quantity
RECURSIVE LineTotal(_)
LineTotal(items) ==
    IF items = <<>> THEN 0
    ELSE Head(items).price * Head(items).quantity + LineTotal(Tail(items))

\* C13: after every step, the totalAmount of every stored order is the sum of
\* its line items' price times quantity, and the line items and the total of
\* an order that was already stored are what they were: no price change of
\* the catalog, callback or status update rewrites them.
C13_TotalIsSumOfLines ==
    [][\A i \in 1..Len(orders') :
         /\ orders'[i].totalAmount = LineTotal(orders'[i].products)
         /\ i <= Len(orders)
            => /\ orders'[i].products = orders[i].products
               /\ orders'[i].totalAmount = orders[i].totalAmount]_vars

\* C13 witness: an order of two units of P1 bought at 100 has been through a
\* callback and a status update, and the catalog price of P1 is now 150: the
\* line still says 100 and the total 200
C13_Witness ==
    /\ Len(orders) = 1
    /\ orders[1].products = <<[product |-> "P1", quantity |-> 2, price |-> 100]>>
    /\ orders[1].totalAmount = 200
    /\ price["P1"] = 150
    /\ cb[1].pc = "done" /\ cb[1].status = 200
    /\ ad[1].pc = "done" /\ ad[1].status = 200

\* C14: no two stored orders have the same thirdPartyReference.
C14_ReferencesDistinct ==
    \A i \in OrderIdx : \A j \in OrderIdx :
       i # j => orders[i].thirdPartyReference # orders[j].thirdPartyReference

\* product p is on a line of a stored order that carries reference ref
OrderedUnder(ref, p) ==
    \E i \in OrderIdx : /\ orders[i].thirdPartyReference = ref
                        /\ SumQty(orders[i].products, p) # 0

\* C15: a step of a callback that carries reference ref changes no stored
\* order that was created with another reference, and changes the stock of no
\* product outside the orders created with ref.
C15_CallbackTouchesItsOrderOnly ==
    [][\A k \in Callbacks :
         (CbActs(k) /\ cb[k].pc \in {"restore", "save"})
         => /\ \A i \in OrderIdx :
                 orders[i].thirdPartyReference # cb[k].ref => orders'[i] = orders[i]
            /\ Len(orders') = Len(orders)
            /\ \A p \in Products :
                 ~OrderedUnder(cb[k].ref, p) => stock'[p] = stock[p]]_vars

\* C15 witness: two Mpesa orders with different references, of P1 and of P2;
\* the failure callback of the first and the success callback of the second
\* are done: the first is failed and its unit is back, the second is paid and
\* its unit is still out
C15_Witness ==
    /\ Len(orders) = 2
    /\ orders[1].thirdPartyReference # orders[2].thirdPartyReference
    /\ orders[1].paymentMethod = "Mpesa" /\ orders[2].paymentMethod = "Mpesa"
    /\ SumQty(orders[1].products, "P1") = 1
    /\ SumQty(orders[2].products, "P2") = 1
    /\ cb[1].pc = "done" /\ cb[1].at = 1 /\ cb[1].code = FailureCode
    /\ cb[2].pc = "done" /\ cb[2].at = 2 /\ cb[2].code = SuccessCode
    /\ orders[1].paymentStatus = "failed" /\ orders[1].orderStatus = "cancelled"
    /\ orders[2].paymentStatus = "paid" /\ orders[2].orderStatus = "processing"
    /\ stock["P1"] = InitStock
    /\ stock["P2"] = InitStock - 1

\* C16: the save of a success callback leaves the orderStatus of an order that
\* is already shipped or delivered as it is.
C16_SuccessCallbackKeepsProgress ==
    [][\A k \in Callbacks :
         (/\ CbSaves(k)
          /\ cb[k].code = SuccessCode
          /\ orders[cb[k].at].orderStatus \in {"shipped", "delivered"})
         => orders'[cb[k].at].orderStatus = orders[cb[k].at].orderStatus]_vars

\* C17: a checkout whose cart has no line does not go on to commit and sends
\* no payment initiation, and no stored order is without line items.
C17_EmptyCartRejected ==
    [][/\ \A r \in Checkouts :
            (co[r].pc = "lines" /\ co[r].productDetails = <<>>)
            => /\ co'[r].pc # "commit"
               /\ ~PaymentInitiated(r)
       /\ \A i \in 1..Len(orders') : orders'[i].products # <<>>]_vars

\* C18: every line item of every stored order has a quantity of at least 1,
\* and the commit of a checkout raises the stock of no product.
C18_QuantitiesPositive ==
    [][/\ \A i \in 1..Len(orders') :
            \A j \in 1..Len(orders'[i].products) :
               orders'[i].products[j].quantity >= 1
       /\ \A r \in Checkouts :
            Commits(r) => \A p \in Products : stock'[p] <= stock[p]]_vars

\* request r takes the step that sends its notification and its response
CoResponds(r) == co[r].pc = "respond" /\ co'[r].pc = "done"

\* request a takes its save step
AdSaves(a) == ad[a].pc = "save" /\ ad'[a].pc = "done"

\* C19: whatever the state of the WhatsApp connection, the step that sends
\* the notification of a checkout, of a callback or of a status update stores
\* what the handler assigned, leaves the stock alone and answers as it does
\* when the message is sent; and sendWhatsAppMessage returns for every socket,
\* none included.
C19_NotificationNeverChangesOutcome ==
    [][/\ \A r \in Checkouts :
            CoResponds(r) => /\ co'[r].res = ResponseOf(r)
                             /\ orders' = orders
                             /\ stock' = stock
       /\ \A k \in Callbacks :
            CbSaves(k)
            => /\ cb'[k].status = 200
               /\ stock' = stock
               /\ orders' = [orders EXCEPT ![cb[k].at] =
                     SaveDoc(@, cb[k].doc, CallbackAssign(cb[k].doc, cb[k].code))]
       /\ \A a \in Admins :
            AdSaves(a)
            => /\ ad'[a].status = 200
               /\ stock' = stock
               /\ orders' = [orders EXCEPT ![ad[a].at] =
                     SaveDoc(@, ad[a].doc,
                             [ad[a].doc EXCEPT !.orderStatus = ad[a].orderStatus])]
       /\ \A s \in SockStates \cup {NoSock} :
            sendWhatsAppMessage(s) \in {"sent", "notSent"}]_vars

\* C19 witness: the checkout notified before the connection was open, the
\* callback while it was open and the status update after it had closed; the
\* checkout answered 201 and the other two 200
C19_Witness ==
    /\ sock = "close"
    /\ co[1].pc = "done" /\ co[1].notified = "notSent" /\ co[1].res.status = 201
    /\ cb[1].pc = "done" /\ cb[1].notified = "sent" /\ cb[1].status = 200
    /\ ad[1].pc = "done" /\ ad[1].notified = "notSent" /\ ad[1].status = 200
    /\ Len(orders) = 1
    /\ orders[1].paymentStatus = "failed"
    /\ orders[1].orderStatus = "shipped"

\* C20: a callback whose reference matches no stored order is answered 200 and
\* changes no order and no stock.
C20_UnknownReferenceAnswersOk ==
    [][\A k \in Callbacks :
         (cb[k].pc = "idle" /\ cb'[k].pc = "done" /\ cb'[k].status # 400)
         => /\ cb'[k].status = 200
            /\ orders' = orders
            /\ stock' = stock]_vars

\* request a takes a step
AdActs(a) == ad'[a] # ad[a]

\* C21: no step of a status update changes any stock.  Its first step changes
\* no order, and ends the request with 404 when the id resolves to no order.
\* Its save step changes nothing but the orderStatus of the order it loaded,
\* which becomes the requested status (or stays, when the requested status is
\* the one that was loaded), and answers 200.
C21_StatusUpdateChangesOrderStatusOnly ==
    [][\A a \in Admins :
         AdActs(a)
         => /\ stock' = stock
            /\ ad[a].pc = "idle"
               => /\ orders' = orders
                  /\ ad'[a].pc = "done"
                     => /\ ad'[a].status = 404
                        /\ \E id \in Checkouts : FindById(id) = 0
                  /\ ad'[a].pc = "save"
                     => /\ ad'[a].at \in OrderIdx
                        /\ ad'[a].doc = orders[ad'[a].at]
            /\ AdSaves(a)
               => /\ ad'[a].status = 200
                  /\ Len(orders') = Len(orders)
                  /\ \A i \in OrderIdx : i # ad[a].at => orders'[i] = orders[i]
                  /\ orders'[ad[a].at] =
                        [orders[ad[a].at] EXCEPT
                            !.orderStatus = orders'[ad[a].at].orderStatus]
                  /\ orders'[ad[a].at].orderStatus
                        \in {ad[a].orderStatus, orders[ad[a].at].orderStatus}
                  /\ ad[a].orderStatus # ad[a].doc.orderStatus
                     => orders'[ad[a].at].orderStatus = ad[a].orderStatus]_vars

\* C21 witness: of two stored one-unit orders the second, paid by card, has
\* been set to cancelled: it is still paid, the first order is still
\* processing, and the units of both are still out of the stock
C21_Witness ==
    /\ Len(orders) = 2
    /\ ad[1].pc = "done" /\ ad[1].status = 200
    /\ cb[1].pc = "idle"
    /\ orders[1].orderStatus = "processing"
    /\ orders[2].orderStatus = "cancelled"
    /\ orders[2].paymentMethod = "Cartao"
    /\ orders[2].paymentStatus = "paid"
    /\ Len(orders[1].products) = 1 /\ Len(orders[2].products) = 1
    /\ orders[2].totalAmount = LineTotal(orders[2].products)
    /\ StockAccounted

\* the digits of a string, in order
RECURSIVE DigitsOf(_)
DigitsOf(s) ==
    IF s = <<>> THEN <<>>
    ELSE (IF Head(s) \in Digits THEN <<Head(s)>> ELSE <<>>) \o DigitsOf(Tail(s))

\* the digits of a string without one leading 0
CleanDigits(s) ==
    LET d == DigitsOf(s)
    IN  IF d # <<>> /\ d[1] = "0" THEN SubSeq(d, 2, Len(d)) ELSE d

Normalized(s) ==
    /\ Len(s) = 12
    /\ \A i \in 1..12 : s[i] \in Digits
    /\ s[1] = "2" /\ s[2] = "5" /\ s[3] = "8"

\* C22: with c the digits of the argument less one leading 0: nine digits
\* starting 84 or 85 give 258 followed by c, twelve digits starting 258 give c,
\* anything else is invalid; a valid result is twelve digits starting 258 and
\* normalizes to itself; "084 123 4567" gives 258841234567, 258851234567
\* gives itself and "12345" is invalid.
C22_NormalizationRule ==
    LET c == CleanDigits(np.phone)
        local == Len(c) = 9 /\ c[1] = "8" /\ c[2] \in {"4", "5"}
        full == Len(c) = 12 /\ c[1] = "2" /\ c[2] = "5" /\ c[3] = "8"
    IN  /\ np.pc \in {"returned", "renormalized"}
           => /\ local => np.result = <<"2", "5", "8">> \o c
              /\ full => np.result = c
              /\ ~local /\ ~full => np.result = InvalidPhone
              /\ np.result # InvalidPhone => Normalized(np.result)
              /\ np.phone = <<"0", "8", "4", " ", "1", "2", "3", " ", "4", "5", "6", "7">>
                 => np.result = <<"2", "5", "8", "8", "4", "1", "2", "3", "4", "5", "6", "7">>
              /\ np.phone = <<"2", "5", "8", "8", "5", "1", "2", "3", "4", "5", "6", "7">>
                 => np.result = np.phone
              /\ np.phone = <<"1", "2", "3", "4", "5">> => np.result = InvalidPhone
        /\ np.pc = "renormalized" /\ np.result # InvalidPhone
           => np.again = np.result

\* C22 witness: "084 123 4567" was normalized to 258841234567, and that
\* result normalized again
C22_Witness ==
    /\ np.pc = "renormalized"
    /\ np.phone = <<"0", "8", "4", " ", "1", "2", "3", " ", "4", "5", "6", "7">>
    /\ np.result = <<"2", "5", "8", "8", "4", "1", "2", "3", "4", "5", "6", "7">>
    /\ np.again = np.result

\* request r runs one turn of its loop over the cart: the line is appended
\* or the request ends on an error of the loop
ReadsLine(r) ==
    /\ co[r].pc = "lines"
    /\ \/ Len(co'[r].productDetails) = Len(co[r].productDetails) + 1
       \/ /\ co'[r].pc = "done"
          /\ co'[r].res.error \in {"ProductNotFound", "InsufficientStock", "WriteConflict"}

\* the turn appended its line
AcceptsLine(r) == Len(co'[r].productDetails) = Len(co[r].productDetails) + 1

\* C23: in a turn of the loop over an existing product whose write meets no
\* conflict, a quantity up to the stock the request sees is accepted and
\* lowers that stock by the quantity, to 0 when they are equal, and any
\* larger quantity, one more than the stock included, ends the request with
\* insufficient stock, the committed stock and the orders being left as they
\* were.  The commit makes the stock the request sees the stock of every
\* product it wrote.
C23_StockBoundary ==
    [][\A r \in Checkouts :
         /\ ReadsLine(r) /\ co'[r].item.product \in Products
            => LET p == co'[r].item.product
                   quantity == co'[r].item.quantity
                   available == co[r].view[p]
               IN  /\ quantity <= available /\ ~WriteConflict(r, p)
                      => /\ AcceptsLine(r)
                         /\ co'[r].view[p] = available - quantity
                         /\ quantity = available => co'[r].view[p] = 0
                   /\ quantity > available
                      => /\ co'[r].pc = "done"
                         /\ co'[r].res = Failed(500, "InsufficientStock")
                         /\ stock' = stock
                         /\ orders' = orders
                   /\ AcceptsLine(r) => quantity <= available
                   /\ co'[r].res.error = "InsufficientStock" => quantity > available
         /\ Commits(r)
            => \A p \in co[r].wrote : stock'[p] = co[r].view[p]]_vars

\* C23 witness: the first checkout asked for the whole stock of P1, was
\* answered 201 and left the stock of P1 at 0; the second then asked for one
\* unit of P1, one more than the stock, and ended with insufficient stock,
\* the stock still 0 and the first order the only one
C23_Witness ==
    /\ co[1].pc = "done" /\ co[1].res.status = 201
    /\ orders[1].products = <<[product |-> "P1", quantity |-> InitStock,
                                price |-> Price("P1")]>>
    /\ co[2].pc = "done" /\ co[2].res = Failed(500, "InsufficientStock")
    /\ co[2].item = [product |-> "P1", quantity |-> 1]
    /\ co[2].productDetails = <<>>
    /\ Len(orders) = 1 /\ orders[1].id = 1
    /\ stock["P1"] = 0

\* the number a string of decimal digits denotes
RECURSIVE ParseAmount(_)
ParseAmount(s) ==
    IF s = <<>> THEN 0
    ELSE 10 * ParseAmount(SubSeq(s, 1, Len(s) - 1))
         + (CHOOSE d \in 0..9 : DigitOf(d) = s[Len(s)])

\* C24: the request an Mpesa checkout sends carries the reference of the
\* order the checkout made, as an amount the decimal string of that order's
\* totalAmount, which is the sum of the validated lines, and as number the
\* normalized form of the customer's phone.  Once it is sent the loop over
\* the cart is over, no turn of the loop runs with a request sent, and a
\* phone that cannot be normalized ends the checkout with nothing sent.  The
\* order an Mpesa checkout commits has the conversationID, responseCode and
\* responseDescription of the acknowledgment, and the reference and the
\* amount of the request.
C24_PaymentRequestMatchesOrder ==
    [][\A r \in Checkouts :
         /\ PaymentInitiated(r)
            => LET sent == co'[r].sent
               IN  /\ sent.input_ThirdPartyReference = clock'
                   /\ sent.input_TransactionReference = clock'
                   /\ \A i \in 1..Len(sent.input_Amount) : sent.input_Amount[i] \in Digits
                   /\ ParseAmount(sent.input_Amount) = co[r].totalAmount
                   /\ co[r].totalAmount = LineTotal(co[r].productDetails)
                   /\ sent.input_CustomerMSISDN = normalizeMpesaNumber(co'[r].phone)
                   /\ Normalized(sent.input_CustomerMSISDN)
                   /\ \A i \in 1..Len(co[r].productDetails) :
                         co[r].productDetails[i].product \in Products
                   /\ co'[r].pc \in {"commit", "done"}
                   /\ co'[r].pc = "commit"
                      => /\ co'[r].order.paymentMethod = "Mpesa"
                         /\ co'[r].order.thirdPartyReference = sent.input_ThirdPartyReference
                         /\ co'[r].order.totalAmount = ParseAmount(sent.input_Amount)
                         /\ co'[r].order.products = co[r].productDetails
         /\ ReadsLine(r) => co[r].sent = NoPayload /\ co'[r].sent = NoPayload
         /\ co[r].pc = "lines" /\ co'[r].sent = NoPayload => co'[r].ack = NoAck
         /\ co'[r].res.error = "InvalidPhoneNumber" => co'[r].sent = NoPayload
         /\ Commits(r) /\ co[r].order.paymentMethod = "Mpesa"
            => LET order == orders'[Len(orders')]
               IN  /\ order.id = r
                   /\ co[r].ack = ProviderAck
                   /\ order.conversationID = co[r].ack.output_ConversationID
                   /\ order.responseCode = co[r].ack.output_ResponseCode
                   /\ order.responseDescription = co[r].ack.output_ResponseDesc
                   /\ order.thirdPartyReference = co[r].sent.input_ThirdPartyReference
                   /\ order.totalAmount = ParseAmount(co[r].sent.input_Amount)]_vars

\* C24 witness: an Mpesa checkout of two units of P1 by "084 123 4567" is
\* committed: the request carried 258841234567, the amount "200" and the
\* order's reference, and the order has the acknowledgment's fields
C24_Witness ==
    /\ co[1].pc = "respond"
    /\ co[1].phone = <<"0", "8", "4", " ", "1", "2", "3", " ", "4", "5", "6", "7">>
    /\ co[1].sent.input_CustomerMSISDN =
          <<"2", "5", "8", "8", "4", "1", "2", "3", "4", "5", "6", "7">>
    /\ co[1].sent.input_Amount = <<"2", "0", "0">>
    /\ Len(orders) = 1
    /\ orders[1].paymentMethod = "Mpesa"
    /\ orders[1].totalAmount = 200
    /\ orders[1].products = <<[product |-> "P1", quantity |-> 2, price |-> 100]>>
    /\ orders[1].thirdPartyReference = co[1].sent.input_ThirdPartyReference
    /\ orders[1].conversationID = ProviderAck.output_ConversationID
    /\ orders[1].responseCode = ProviderAck.output_ResponseCode
    /\ orders[1].responseDescription = ProviderAck.output_ResponseDesc

\* callback k has finished after running the restore loop for the order it
\* loaded
RestoredBy(k) ==
    /\ cb[k].pc = "done"
    /\ cb[k].at \in OrderIdx
    /\ RestoresStock(cb[k].code)
    /\ orders[cb[k].at].products # <<>>

\* C25: an order for which a finished callback has run the restore loop,
\* whether it was answered 200 or 500, is not pending; and when one such
\* callback was answered 500 and another callback has run the loop for the
\* same order, no product has more stock than it had initially.
C25_RestoreAndCancelTogether ==
    /\ \A k \in Callbacks :
          RestoredBy(k) => orders[cb[k].at].paymentStatus # "pending"
    /\ \A k, j \in Callbacks :
          (/\ k # j
           /\ RestoredBy(k) /\ cb[k].status = 500
           /\ RestoredBy(j) /\ cb[j].at = cb[k].at)
          => \A p \in Products : stock[p] <= InitStock

\* C26: once startBaileys has run again and made its socket, the
\* notification of a checkout, of a callback and of a status update does what
\* sendWhatsAppMessage does with the socket made last.
C26_NotificationsUseLatestSocket ==
    [][wa.calls > 1 /\ ~wa.starting
       => /\ \A r \in Checkouts :
               CoResponds(r) => co'[r].notified = sendWhatsAppMessage(wa.latest)
          /\ \A k \in Callbacks :
               CbSaves(k) => cb'[k].notified = sendWhatsAppMessage(wa.latest)
          /\ \A a \in Admins :
               AdSaves(a) => ad'[a].notified = sendWhatsAppMessage(wa.latest)]_vars

\* the socket made last closes in this step
WaCloses == wa.latest # "close" /\ wa'.latest = "close"

\* C27: the connection state never reads connected with a QR code stored.  A
\* close for the logged-out reason leaves the status logged_out and calls
\* startBaileys no more, in that step or later; a close for another reason
\* leaves the status disconnected and calls startBaileys once, and that call
\* makes one socket; startBaileys is called in no other step.
C27_ConnectionState ==
    /\ [](wa.status = "connected" => wa.qr = NoQr)
    /\ [][/\ WaCloses /\ wa'.lastDisconnect = "loggedOut"
             => /\ wa'.status = "logged_out"
                /\ wa'.calls = wa.calls
                /\ ~wa'.starting
          /\ WaCloses /\ wa'.lastDisconnect # "loggedOut"
             => /\ wa'.status = "disconnected"
                /\ wa'.calls = wa.calls + 1
                /\ wa'.starting
          /\ wa.status = "logged_out" => wa' = wa
          /\ wa.starting /\ wa' # wa
             => wa' = [wa EXCEPT !.starting = FALSE, !.latest = "connecting"]
          /\ wa'.calls # wa.calls => WaCloses]_vars

\* C27 witness: the first socket was closed for another reason than a logout,
\* startBaileys was called a second time, its socket offered a QR code and
\* was then closed by a logout: the status is logged_out, the code is still
\* stored and there was no third call
C27_Witness ==
    /\ wa.calls = 2
    /\ ~wa.starting
    /\ wa.latest = "close"
    /\ wa.lastDisconnect = "loggedOut"
    /\ wa.status = "logged_out"
    /\ wa.qr \in QrCodes
    /\ sock = "close"

====
